---- MODULE Spec2Model ----
(***************************************************************************)
(* Model of evaluate_deepseek.py: the ARC evaluation harness.              *)
(*                                                                         *)
(*   - the Grid Codec (format_grid, parse_model_output) and the Scorer     *)
(*     (evaluate_task) are pure functions over texts and grids; they are   *)
(*     exercised by the specification SpecCodec;                           *)
(*   - the Evaluation Driver (run_evaluation, main) is a sequential state  *)
(*     machine with an external model call and two result files; it is    *)
(*     the specification Spec.                                             *)
(*                                                                         *)
(* A text is a sequence of characters, a character a one-element string.   *)
(* A grid is a sequence of rows, a row a sequence of integers.             *)
(***************************************************************************)
EXTENDS Integers, Sequences, FiniteSets

VARIABLES
    codec,          \* the last codec/scorer application: its inputs and its result
    pc,             \* position of main / run_evaluation
    eval_files,     \* the tasks discovered under data/evaluation (after the cap)
    taskIdx,        \* number of tasks whose loop iteration has begun
    task,           \* the loaded task: its sequence of test cases
    task_result,    \* the TaskOutcome being accumulated
    testIdx,        \* number of test cases of the task whose iteration has begun
    model_response, \* the text call_model_with_timeout returned
    results,        \* the RunResults being accumulated
    partialFile,    \* content of evaluation_results_partial.json
    finalFile,      \* content of evaluation_results.json
    finalWrites,    \* history: number of times evaluation_results.json was opened for writing
    callOutcome,    \* history: how the model call of the current test case ended
    failedCalls,    \* history: test cases of the current task whose call timed out or failed
    returned,       \* history: run_evaluation returned its results to main
    persisted       \* history: the last RunResults completely written to the partial file

codecVars  == <<codec>>
driverVars == <<pc, eval_files, taskIdx, task, task_result, testIdx, model_response,
                results, partialFile, finalFile, finalWrites, callOutcome, failedCalls,
                returned, persisted>>
vars == <<codec, pc, eval_files, taskIdx, task, task_result, testIdx, model_response,
          results, partialFile, finalFile, finalWrites, callOutcome, failedCalls,
          returned, persisted>>

----------------------------------------------------------------------------
(* Bounds of the model.                                                    *)

MaxRows  == 2    \* rows of an enumerated grid
MaxCols  == 2    \* columns of an enumerated grid
MaxProse == 1    \* prose lines before, and after, a grid block
MaxText  == 3    \* length of an arbitrary text handed to the decoder
MaxFiles == 2    \* task files discovered
MaxTests == 2    \* test cases of a task

\* The element values the enumerated grids are built from (a sample of 0..9).
Cells == {0, 9}

----------------------------------------------------------------------------
(* Characters.                                                             *)

DigitChars == <<"0", "1", "2", "3", "4", "5", "6", "7", "8", "9">>

\* A character for which str.isdigit() is true and int() raises ValueError
\* (a superscript two).
SUP2 == "SUP2"

NL  == "\n"
SP  == " "
TAB == "\t"

isdigit(c) == c = SUP2 \/ \E k \in 1..10 : DigitChars[k] = c

isspace(c) == c \in {SP, TAB, NL}

\* Value of an ASCII digit character.
DigitVal(c) == (CHOOSE k \in 1..10 : DigitChars[k] = c) - 1

\* str(n) of a non-negative integer.
RECURSIVE str(_)
str(n) == IF n < 10 THEN <<DigitChars[n + 1]>>
          ELSE str(n \div 10) \o <<DigitChars[(n % 10) + 1]>>

\* sep.join(parts)
RECURSIVE join(_, _)
join(sep, parts) ==
    IF Len(parts) = 0 THEN << >>
    ELSE IF Len(parts) = 1 THEN parts[1]
    ELSE parts[1] \o sep \o join(sep, Tail(parts))

\* text.split('\n'): the lines of a text; the empty text has one empty line.
RECURSIVE splitNL(_)
splitNL(t) ==
    IF \A i \in 1..Len(t) : t[i] # NL THEN <<t>>
    ELSE LET k == CHOOSE i \in 1..Len(t) : t[i] = NL /\ \A j \in 1..(i - 1) : t[j] # NL
         IN  <<SubSeq(t, 1, k - 1)>> \o splitNL(SubSeq(t, k + 1, Len(t)))

\* line.split(): the maximal runs of non-whitespace characters.
RECURSIVE splitWS(_)
splitWS(t) ==
    IF Len(t) = 0 THEN << >>
    ELSE IF isspace(t[1]) THEN splitWS(Tail(t))
    ELSE LET stops == {i \in 1..Len(t) : isspace(t[i])}
             k     == IF stops = {} THEN Len(t) + 1
                      ELSE CHOOSE i \in stops : \A j \in stops : i <= j
         IN  <<SubSeq(t, 1, k - 1)>> \o splitWS(SubSeq(t, k, Len(t)))

\* int(token) of a token of isdigit characters; -1 stands for ValueError.
RECURSIVE int(_)
int(tok) ==
    IF Len(tok) = 0 THEN -1
    ELSE IF \E i \in 1..Len(tok) : tok[i] = SUP2 \/ ~isdigit(tok[i]) THEN -1
    ELSE IF Len(tok) = 1 THEN DigitVal(tok[1])
    ELSE 10 * int(SubSeq(tok, 1, Len(tok) - 1)) + DigitVal(tok[Len(tok)])

----------------------------------------------------------------------------
(* Grid Codec.                                                             *)

formatRow(row) == join(<<SP>>, [k \in 1..Len(row) |-> str(row[k])])

format_grid_rowsOnOneLine(grid) == join(<<SP>>, [r \in 1..Len(grid) |-> formatRow(grid[r])])

format_grid(grid) == join(<<NL>>, [r \in 1..Len(grid) |-> formatRow(grid[r])])

hasDigit(line) == \E i \in 1..Len(line) : isdigit(line[i])

\* The first loop of parse_model_output: the first contiguous run of lines
\* that hold a digit.  `taken` is the list `lines` built so far.
RECURSIVE scanLines(_, _)
scanLines(rest, taken) ==
    IF Len(rest) = 0 THEN taken
    ELSE IF hasDigit(rest[1]) THEN scanLines(Tail(rest), Append(taken, rest[1]))
    ELSE IF Len(taken) > 0 THEN taken
    ELSE scanLines(Tail(rest), taken)

RECURSIVE selectChars(_)
selectChars(line) ==
    IF Len(line) = 0 THEN << >>
    ELSE IF isdigit(line[1]) \/ isspace(line[1])
         THEN <<line[1]>> \o selectChars(Tail(line))
         ELSE selectChars(Tail(line))

RECURSIVE selectDigits(_)
selectDigits(line) ==
    IF Len(line) = 0 THEN << >>
    ELSE IF isdigit(line[1]) THEN <<line[1]>> \o selectDigits(Tail(line))
    ELSE selectDigits(Tail(line))

\* cleaned_line: only the digits and the whitespace of the line.
cleanLine_digitsOnly(line) == selectDigits(line)

cleanLine(line) == selectChars(line)

\* row = [int(num) for num in cleaned_line.split()]
parseRow(line) ==
    LET toks == splitWS(cleanLine(line))
    IN  [k \in 1..Len(toks) |-> int(toks[k])]

RECURSIVE dropEmptyRows(_)
dropEmptyRows(rows) ==
    IF Len(rows) = 0 THEN << >>
    ELSE IF Len(rows[1]) > 0 THEN <<rows[1]>> \o dropEmptyRows(Tail(rows))
    ELSE dropEmptyRows(Tail(rows))

parse_model_output(output) ==
    LET lines == scanLines(splitNL(output), << >>)
        rows  == [k \in 1..Len(lines) |-> parseRow(lines[k])]
        raised == \E k \in 1..Len(rows) : \E j \in 1..Len(rows[k]) : rows[k][j] < 0
    IN  IF raised THEN << >> ELSE dropEmptyRows(rows)

----------------------------------------------------------------------------
(* Scorer.                                                                 *)

\* zip(model_output, expected_output) with the two early returns of the loop.
RECURSIVE rowsMatch(_, _)
rowsMatch(model_output, expected_output) ==
    IF Len(model_output) = 0 \/ Len(expected_output) = 0 THEN TRUE
    ELSE IF Len(model_output[1]) # Len(expected_output[1]) THEN FALSE
    ELSE IF model_output[1] # expected_output[1] THEN FALSE
    ELSE rowsMatch(Tail(model_output), Tail(expected_output))

evaluate_task_noRowCount(model_output, expected_output) ==
    IF Len(model_output) = 0 THEN FALSE
    ELSE rowsMatch(model_output, expected_output)

evaluate_task(model_output, expected_output) ==
    IF Len(model_output) = 0 \/ Len(model_output) # Len(expected_output) THEN FALSE
    ELSE rowsMatch(model_output, expected_output)

----------------------------------------------------------------------------
(* Inputs of the codec and of the scorer.                                  *)

\* The well-formed grids: r rows of one length c, elements in Cells.
WellFormedGrids ==
    UNION {[1..r -> [1..c -> Cells]] : r \in 0..MaxRows, c \in 0..MaxCols}

\* The grids a response can spell out: at least one row and one column.
BlockGrids ==
    UNION {[1..r -> [1..c -> Cells]] : r \in 1..MaxRows, c \in 1..MaxCols}

RowsUpTo(n) == UNION {[1..c -> Cells] : c \in 0..n}

\* g with the element at row r, column c replaced by v.
withElement(g, r, c, v) == [g EXCEPT ![r] = [g[r] EXCEPT ![c] = v]]

OneElementChanged(g) ==
    UNION {{withElement(g, r, c, v) : c \in 1..Len(g[r]), v \in Cells} :
              r \in 1..Len(g)} \ {g}

ExtraRow(g) ==
    {Append(g, row) : row \in RowsUpTo(MaxCols)} \cup {<<row>> \o g : row \in RowsUpTo(MaxCols)}

\* Lines of prose: no character of them is a digit.
ProseLines == {<< >>, <<"x", SP, "x">>, <<"*", "x", ":">>}

ProseBlocks == UNION {[1..n -> ProseLines] : n \in 0..MaxProse}

\* The ways a response separates the digits of a row.
RowStyles == {"single", "double", "tab", "padded"}

renderRow(row, style) ==
    LET digits == [k \in 1..Len(row) |-> str(row[k])]
    IN  CASE style = "single" -> join(<<SP>>, digits)
          [] style = "double" -> join(<<SP, SP>>, digits)
          [] style = "tab"    -> join(<<TAB>>, digits)
          [] style = "padded" -> <<SP>> \o join(<<SP>>, digits) \o <<SP, SP>>

renderBlock(g, style) == [r \in 1..Len(g) |-> renderRow(g[r], style)]

Alphabet == {"0", "1", "9", SP, NL, "x", SUP2}

Texts == UNION {[1..n -> Alphabet] : n \in 0..MaxText}

NoGrid == << >>

CodecIdle ==
    [op |-> "idle", grid |-> NoGrid, other |-> NoGrid, rel |-> "none",
     lead |-> << >>, trail |-> << >>, style |-> "none",
     text |-> << >>, out |-> NoGrid, ok |-> FALSE]

----------------------------------------------------------------------------
(* Applications of the codec and of the scorer.                            *)

\* parse_model_output(format_grid(g))
EncodeDecode ==
    /\ codec.op = "idle"
    /\ \E g \in WellFormedGrids :
            codec' = [CodecIdle EXCEPT !.op = "roundtrip", !.grid = g,
                                       !.text = format_grid(g),
                                       !.out = parse_model_output(format_grid(g))]
    /\ UNCHANGED driverVars

\* evaluate_task(task, g, g)
ScoreSame ==
    /\ codec.op = "idle"
    /\ \E g \in WellFormedGrids :
            codec' = [CodecIdle EXCEPT !.op = "score", !.rel = "same", !.grid = g,
                                       !.other = g, !.ok = evaluate_task(g, g)]
    /\ UNCHANGED driverVars

\* evaluate_task(task, g, g') with g' = g with one element changed
ScoreChanged ==
    /\ codec.op = "idle"
    /\ \E g \in WellFormedGrids : \E h \in OneElementChanged(g) :
            codec' = [CodecIdle EXCEPT !.op = "score", !.rel = "changed", !.grid = g,
                                       !.other = h, !.ok = evaluate_task(g, h)]
    /\ UNCHANGED driverVars

\* evaluate_task(task, g, g') with g' = g with an extra row
ScoreExtraRow ==
    /\ codec.op = "idle"
    /\ \E g \in WellFormedGrids : \E h \in ExtraRow(g) :
            codec' = [CodecIdle EXCEPT !.op = "score", !.rel = "extra_row", !.grid = g,
                                       !.other = h, !.ok = evaluate_task(g, h)]
    /\ UNCHANGED driverVars

\* parse_model_output of prose lines, a block of grid rows, prose lines
DecodeNoisy ==
    /\ codec.op = "idle"
    /\ \E lead \in ProseBlocks, g \in BlockGrids, style \in RowStyles, trail \in ProseBlocks :
            LET text == join(<<NL>>, lead \o renderBlock(g, style) \o trail)
            IN  codec' = [CodecIdle EXCEPT !.op = "decode", !.grid = g, !.lead = lead,
                                           !.trail = trail, !.style = style, !.text = text,
                                           !.out = parse_model_output(text)]
    /\ UNCHANGED driverVars

\* parse_model_output of an arbitrary text
DecodeAny ==
    /\ codec.op = "idle"
    /\ \E text \in Texts :
            codec' = [CodecIdle EXCEPT !.op = "decode_any", !.text = text,
                                       !.out = parse_model_output(text)]
    /\ UNCHANGED driverVars

----------------------------------------------------------------------------
(* Evaluation Driver: data.                                                *)

\* main calls run_evaluation(num_tasks=5).
NumTasks == 5

\* A test case is its expected output (the input only feeds the prompt, and
\* the model is an external collaborator whose answer is any text).
TestCaseOf(k) ==
    [output |-> IF k % 2 = 1 THEN <<<<0, 9>>, <<9, 0>>>> ELSE <<<<9>>>>]

\* The 'test' lists of the task files: any number of test cases.
TestLists == {[k \in 1..n |-> TestCaseOf(k)] : n \in 0..MaxTests}

\* The contents of data/evaluation, in discovery order.
Directories == UNION {[1..n -> TestLists] : n \in 0..MaxFiles}

\* The texts the model answers with: nothing, the expected grid behind a
\* line of prose, another grid.
Responses(expected) ==
    {<< >>,
     <<"x", ":", NL>> \o format_grid(expected),
     format_grid(<<<<0, 0>>>>)}

EmptyResults == [correct |-> 0, total |-> 0, tasks |-> << >>]

NoTaskResult == [task_id |-> 0, correct |-> 0, total |-> 0, details |-> << >>]

\* A file is absent, torn (opened for writing, its content not yet complete)
\* or written (it holds the JSON of `data`).
Absent        == [state |-> "absent",  data |-> EmptyResults]
Torn          == [state |-> "torn",    data |-> EmptyResults]
Written(data) == [state |-> "written", data |-> data]

take(s, n) == IF Len(s) <= n THEN s ELSE SubSeq(s, 1, n)

----------------------------------------------------------------------------
(* Evaluation Driver: steps.                                               *)

\* main up to the call, and run_evaluation up to its task loop.
StartRun ==
    /\ pc = "main"
    /\ results' = EmptyResults
    /\ eval_files' = take(eval_files, NumTasks)
    /\ taskIdx' = 0
    /\ pc' = "task_loop"
    /\ UNCHANGED <<codec, task, task_result, testIdx, model_response, partialFile,
                   finalFile, finalWrites, callOutcome, failedCalls, returned, persisted>>

\* task_result = {'task_id': ..., 'correct': 0, 'total': len(task['test']), 'details': []}
newTaskResult_totalFromZero(id, tests) ==
    [task_id |-> id, correct |-> 0, total |-> 0, details |-> << >>]

newTaskResult(id, tests) ==
    [task_id |-> id, correct |-> 0, total |-> Len(tests), details |-> << >>]

\* for task_path in eval_files: load the task, start its task_result.
BeginTask ==
    /\ pc = "task_loop"
    /\ taskIdx < Len(eval_files)
    /\ taskIdx' = taskIdx + 1
    /\ task' = [task_id |-> taskIdx + 1, test |-> eval_files[taskIdx + 1]]
    /\ task_result' = newTaskResult(taskIdx + 1, eval_files[taskIdx + 1])
    /\ testIdx' = 0
    /\ failedCalls' = {}
    /\ pc' = "test_loop"
    /\ UNCHANGED <<codec, eval_files, model_response, results, partialFile, finalFile,
                   finalWrites, callOutcome, returned, persisted>>

\* load_task raises (a missing or malformed file): main's except Exception.
LoadTaskFails ==
    /\ pc = "task_loop"
    /\ taskIdx < Len(eval_files)
    /\ pc' = "failed"
    /\ UNCHANGED <<codec, eval_files, taskIdx, task, task_result, testIdx, model_response,
                   results, partialFile, finalFile, finalWrites, callOutcome, failedCalls,
                   returned, persisted>>

\* call_model_with_timeout: the call returns its content within the timeout.
ModelResponds ==
    /\ pc = "test_loop"
    /\ testIdx < Len(task.test)
    /\ \E text \in Responses(task.test[testIdx + 1].output) : model_response' = text
    /\ testIdx' = testIdx + 1
    /\ callOutcome' = "responded"
    /\ pc' = "called"
    /\ UNCHANGED <<codec, eval_files, taskIdx, task, task_result, results, partialFile,
                   finalFile, finalWrites, failedCalls, returned, persisted>>

\* call_model_with_timeout: asyncio.TimeoutError, "" is returned.
ModelTimesOut ==
    /\ pc = "test_loop"
    /\ testIdx < Len(task.test)
    /\ model_response' = << >>
    /\ testIdx' = testIdx + 1
    /\ callOutcome' = "timed_out"
    /\ failedCalls' = failedCalls \cup {testIdx + 1}
    /\ pc' = "called"
    /\ UNCHANGED <<codec, eval_files, taskIdx, task, task_result, results, partialFile,
                   finalFile, finalWrites, returned, persisted>>

\* call_model_with_timeout: any other exception, "" is returned.
ModelCallFails ==
    /\ pc = "test_loop"
    /\ testIdx < Len(task.test)
    /\ model_response' = << >>
    /\ testIdx' = testIdx + 1
    /\ callOutcome' = "call_failed"
    /\ failedCalls' = failedCalls \cup {testIdx + 1}
    /\ pc' = "called"
    /\ UNCHANGED <<codec, eval_files, taskIdx, task, task_result, results, partialFile,
                   finalFile, finalWrites, returned, persisted>>

\* if not model_response: continue (the task_result is left as it is)
skipped_leavesTotal(tr) == [tr EXCEPT !.total = @ - 1]

skipped(tr) == tr

SkipTestCase ==
    /\ pc = "called"
    /\ model_response = << >>
    /\ task_result' = skipped(task_result)
    /\ callOutcome' = "none"
    /\ pc' = "test_loop"
    /\ UNCHANGED <<codec, eval_files, taskIdx, task, testIdx, model_response, results,
                   partialFile, finalFile, finalWrites, failedCalls, returned, persisted>>

\* The task_result after the response of test case idx is parsed and scored.
scored(tr, idx, response, expected) ==
    LET parsed_output == parse_model_output(response)
        is_correct    == evaluate_task(parsed_output, expected)
        detail        == [test_case |-> idx, correct |-> is_correct,
                          model_output |-> parsed_output, expected_output |-> expected]
    IN  [tr EXCEPT !.correct = IF is_correct THEN @ + 1 ELSE @,
                   !.details = Append(@, detail)]

ScoreTestCase ==
    /\ pc = "called"
    /\ model_response # << >>
    /\ task_result' = scored(task_result, testIdx, model_response, task.test[testIdx].output)
    /\ callOutcome' = "none"
    /\ pc' = "test_loop"
    /\ UNCHANGED <<codec, eval_files, taskIdx, task, testIdx, model_response, results,
                   partialFile, finalFile, finalWrites, failedCalls, returned, persisted>>

\* results['tasks'].append(task_result); total and correct are added.
aggregated_correctNotAdded(res, tr) ==
    [tasks |-> Append(res.tasks, tr), total |-> res.total + tr.total,
     correct |-> res.correct]

aggregated(res, tr) ==
    [tasks |-> Append(res.tasks, tr), total |-> res.total + tr.total,
     correct |-> res.correct + tr.correct]

AggregateTask ==
    /\ pc = "test_loop"
    /\ testIdx = Len(task.test)
    /\ results' = aggregated(results, task_result)
    /\ pc' = "open_partial"
    /\ UNCHANGED <<codec, eval_files, taskIdx, task, task_result, testIdx, model_response,
                   partialFile, finalFile, finalWrites, callOutcome, failedCalls, returned,
                   persisted>>

\* open('evaluation_results_partial.json', 'w') truncates the file.
OpenPartial ==
    /\ pc = "open_partial"
    /\ partialFile' = Torn
    /\ pc' = "dump_partial"
    /\ UNCHANGED <<codec, eval_files, taskIdx, task, task_result, testIdx, model_response,
                   results, finalFile, finalWrites, callOutcome, failedCalls, returned,
                   persisted>>

\* json.dump(results, f) and the close of the file.
DumpPartial ==
    /\ pc = "dump_partial"
    /\ partialFile' = Written(results)
    /\ persisted' = Written(results)
    /\ pc' = "task_loop"
    /\ UNCHANGED <<codec, eval_files, taskIdx, task, task_result, testIdx, model_response,
                   results, finalFile, finalWrites, callOutcome, failedCalls, returned>>

\* return results
ReturnResults ==
    /\ pc = "task_loop"
    /\ taskIdx = Len(eval_files)
    /\ returned' = TRUE
    /\ pc' = "report"
    /\ UNCHANGED <<codec, eval_files, taskIdx, task, task_result, testIdx, model_response,
                   results, partialFile, finalFile, finalWrites, callOutcome, failedCalls,
                   persisted>>

\* main prints results['correct']/results['total']*100.
ReportAccuracy ==
    /\ pc = "report"
    /\ results.total # 0
    /\ pc' = "open_final"
    /\ UNCHANGED <<codec, eval_files, taskIdx, task, task_result, testIdx, model_response,
                   results, partialFile, finalFile, finalWrites, callOutcome, failedCalls,
                   returned, persisted>>

\* ... which raises ZeroDivisionError when total is 0: main's except Exception.
ReportDividesByZero ==
    /\ pc = "report"
    /\ results.total = 0
    /\ pc' = "failed"
    /\ UNCHANGED <<codec, eval_files, taskIdx, task, task_result, testIdx, model_response,
                   results, partialFile, finalFile, finalWrites, callOutcome, failedCalls,
                   returned, persisted>>

\* open('evaluation_results.json', 'w')
OpenFinal ==
    /\ pc = "open_final"
    /\ finalFile' = Torn
    /\ finalWrites' = finalWrites + 1
    /\ pc' = "dump_final"
    /\ UNCHANGED <<codec, eval_files, taskIdx, task, task_result, testIdx, model_response,
                   results, partialFile, callOutcome, failedCalls, returned, persisted>>

\* json.dump(results, f) and the close of the file.
DumpFinal ==
    /\ pc = "dump_final"
    /\ finalFile' = Written(results)
    /\ pc' = "done"
    /\ UNCHANGED <<codec, eval_files, taskIdx, task, task_result, testIdx, model_response,
                   results, partialFile, finalWrites, callOutcome, failedCalls, returned,
                   persisted>>

\* KeyboardInterrupt, at any point of the run: main's except KeyboardInterrupt.
Interrupt ==
    /\ pc \notin {"done", "failed", "interrupted"}
    /\ pc' = "interrupted"
    /\ UNCHANGED <<codec, eval_files, taskIdx, task, task_result, testIdx, model_response,
                   results, partialFile, finalFile, finalWrites, callOutcome, failedCalls,
                   returned, persisted>>

----------------------------------------------------------------------------
(* Specifications.                                                         *)

DriverInit ==
    /\ pc = "main"
    /\ taskIdx = 0
    /\ task = [task_id |-> 0, test |-> << >>]
    /\ task_result = NoTaskResult
    /\ testIdx = 0
    /\ model_response = << >>
    /\ results = EmptyResults
    /\ partialFile = Absent
    /\ finalFile = Absent
    /\ finalWrites = 0
    /\ callOutcome = "none"
    /\ failedCalls = {}
    /\ returned = FALSE
    /\ persisted = Absent

Init ==
    /\ codec = CodecIdle
    /\ eval_files \in Directories
    /\ DriverInit

Next ==
    \/ StartRun
    \/ BeginTask
    \/ LoadTaskFails
    \/ ModelResponds
    \/ ModelTimesOut
    \/ ModelCallFails
    \/ SkipTestCase
    \/ ScoreTestCase
    \/ AggregateTask
    \/ OpenPartial
    \/ DumpPartial
    \/ ReturnResults
    \/ ReportAccuracy
    \/ ReportDividesByZero
    \/ OpenFinal
    \/ DumpFinal
    \/ Interrupt

Spec == Init /\ [][Next]_vars

CodecInit ==
    /\ codec = CodecIdle
    /\ eval_files = << >>
    /\ DriverInit

CodecNext ==
    \/ EncodeDecode
    \/ ScoreSame
    \/ ScoreChanged
    \/ ScoreExtraRow
    \/ DecodeNoisy
    \/ DecodeAny

SpecCodec == CodecInit /\ [][CodecNext]_vars

----------------------------------------------------------------------------
(* Properties of the codec and of the scorer (under SpecCodec).            *)

RoundTripped == codec.op = "roundtrip"

\* C8 as stated: parse_model_output(format_grid(g)) = g for every well-formed
\* grid g, of any row and column counts.
C8_RoundTripEveryGrid == RoundTripped => codec.out = codec.grid

\* C8 amended: parse_model_output(format_grid(g)) = g for every well-formed
\* grid g that has no rows or whose rows hold at least one element; a grid of
\* r >= 1 empty rows decodes to the grid with no rows.
C8_RoundTripNonEmptyRows ==
    RoundTripped =>
        IF Len(codec.grid) = 0 \/ Len(codec.grid[1]) >= 1
        THEN codec.out = codec.grid
        ELSE codec.out = << >>

C8_Witness ==
    /\ RoundTripped
    /\ Len(codec.grid) = 2
    /\ Len(codec.grid[1]) = 2
    /\ codec.grid[1] # codec.grid[2]
    /\ codec.out = codec.grid

Scored == codec.op = "score"

\* C9 as stated: evaluate_task is true for (g, g) for every grid g, false for
\* (g, g') when g' is g with one element changed or g with an extra row.
C9_MatchesEveryGrid ==
    Scored =>
        /\ codec.rel = "same" => codec.ok
        /\ codec.rel \in {"changed", "extra_row"} => ~codec.ok

\* C9 amended: evaluate_task is true for (g, g) for every grid g with at
\* least one row and false for the grid with no rows; it is false for (g, g')
\* when g' is g with one element changed or g with an extra row.
C9_MatchesNonEmptyGrid ==
    Scored =>
        /\ codec.rel = "same" => (codec.ok <=> Len(codec.grid) >= 1)
        /\ codec.rel \in {"changed", "extra_row"} => ~codec.ok

C9_Witness ==
    /\ Scored
    /\ codec.rel = "extra_row"
    /\ Len(codec.grid) >= 1
    /\ SubSeq(codec.other, 1, Len(codec.grid)) = codec.grid
    /\ ~codec.ok

----------------------------------------------------------------------------
(* Properties of the driver (under Spec).                                  *)

Range(f) == {f[k] : k \in DOMAIN f}

RECURSIVE SumCorrect(_)
SumCorrect(outcomes) ==
    IF Len(outcomes) = 0 THEN 0 ELSE outcomes[1].correct + SumCorrect(Tail(outcomes))

RECURSIVE SumTotal(_)
SumTotal(outcomes) ==
    IF Len(outcomes) = 0 THEN 0 ELSE outcomes[1].total + SumTotal(Tail(outcomes))

\* The test cases a TaskOutcome holds a TestCaseOutcome of.
Recorded(tr) == {d.test_case : d \in Range(tr.details)}

CorrectDetails(tr) == Cardinality({k \in 1..Len(tr.details) : tr.details[k].correct})

\* The step that adds the finished task's outcome to the RunResults.
AggregateStep == pc = "test_loop" /\ pc' = "open_partial"

\* The step that skips a test case whose model response is empty.
SkipStep == pc = "called" /\ model_response = << >> /\ pc' = "test_loop"

\* The counts a finished task contributes when `counted` of its test cases count.
Contributes(counted) ==
    /\ Recorded(task_result) \cap failedCalls = {}
    /\ task_result.correct = CorrectDetails(task_result)
    /\ task_result.total = counted
    /\ results'.correct = results.correct + CorrectDetails(task_result)
    /\ results'.total = results.total + counted

\* C1 as stated: a test case whose model call timed out or failed is excluded
\* from the correct count and from the total count, of its TaskOutcome and of
\* the RunResults.
C1_FailedCallsOutOfBothCounts ==
    [][AggregateStep => Contributes(Len(task.test) - Cardinality(failedCalls))]_vars

\* C1 amended: a test case whose model call timed out or failed gets no
\* TestCaseOutcome and adds nothing to the correct count, of its TaskOutcome
\* and of the RunResults, but it is counted in both total counts: the task
\* contributes the number of its declared test cases.
C1_FailedCallsOutOfCorrectOnly ==
    [][AggregateStep => Contributes(Len(task.test))]_vars

C1_Witness ==
    /\ pc = "open_partial"
    /\ failedCalls # {}
    /\ Recorded(task_result) # {}
    /\ task_result.correct >= 1
    /\ results.total = Len(task.test)

\* The TaskOutcomes of a RunResults show the declared number of test cases.
DeclaredTotals(res) ==
    \A i \in 1..Len(res.tasks) :
        res.tasks[i].total = Len(eval_files[res.tasks[i].task_id])

\* C2: every TaskOutcome's totalCount is the number of test cases its Task
\* declares, whatever test cases were skipped for an empty response (in the
\* RunResults, in the snapshots and in the task under way), and a skip leaves
\* correctCount unchanged.
C2_TotalIsDeclaredCount ==
    /\ [](/\ DeclaredTotals(results)
          /\ partialFile.state = "written" => DeclaredTotals(partialFile.data)
          /\ finalFile.state = "written" => DeclaredTotals(finalFile.data)
          /\ pc \in {"test_loop", "called"} => task_result.total = Len(task.test))
    /\ [][SkipStep => task_result'.correct = task_result.correct]_vars

C2_Witness ==
    \E i \in 1..Len(results.tasks) :
        /\ results.tasks[i].total = 2
        /\ Len(results.tasks[i].details) = 1
        /\ results.tasks[i].correct = 1

\* C3 as stated: a TestCaseOutcome is appended for a test case if and only if
\* its model call returned text within the timeout, whatever the text: the
\* recorded test cases are those whose call neither timed out nor failed.
C3_OutcomeIffCallReturned ==
    pc = "test_loop" => Recorded(task_result) = (1..testIdx) \ failedCalls

Crashed == pc \in {"interrupted", "failed"}

TasksKept == IF partialFile.state = "written" THEN Len(partialFile.data.tasks) ELSE 0

\* C4 as stated: at every task boundary the partial snapshot is the full
\* RunResults of the tasks completed so far, and a crash mid-run loses at most
\* the task in flight.
C4_PartialSnapshotKeepsCompletedTasks ==
    /\ pc = "task_loop" /\ taskIdx >= 1 => partialFile = Written(results)
    /\ Crashed => TasksKept >= Len(results.tasks) - 1

\* C5 as stated: whenever run_evaluation returns, for any number of tasks and
\* of test cases, main writes the final snapshot exactly once, to a file of
\* its own, with the returned RunResults as content.
C5_FinalSnapshotWrittenOnce ==
    returned /\ pc \in {"done", "failed"} =>
        /\ finalWrites = 1
        /\ finalFile = Written(results)

\* C6 as stated: after an interruption at any point, also during a write, the
\* partial snapshot is the last RunResults that was completely written.
C6_InterruptKeepsLastSnapshot ==
    pc = "interrupted" => partialFile = persisted

SumsMatch(res) ==
    /\ res.correct = SumCorrect(res.tasks)
    /\ res.total = SumTotal(res.tasks)

\* C7: in every persisted snapshot and in the value run_evaluation returns,
\* correctCount and totalCount are the sums over the TaskOutcomes, also when
\* there is no task.
C7_CountsAreSums ==
    /\ partialFile.state = "written" => SumsMatch(partialFile.data)
    /\ finalFile.state = "written" => SumsMatch(finalFile.data)
    /\ returned => SumsMatch(results)

C7_Witness ==
    /\ partialFile.state = "written"
    /\ Len(partialFile.data.tasks) = 2
    /\ partialFile.data.tasks[1].correct = 1
    /\ partialFile.data.tasks[2].correct = 1
    /\ partialFile.data.correct = 2
    /\ partialFile.data.total = 4

====
